---- MODULE Spec2Model ----
(***************************************************************************)
(* Model of src/main.py: the POST /generate endpoint, the image generation *)
(* client (generate_image), the object storage uploader (upload_to_r2) and *)
(* the lifespan that creates the shared clients.                           *)
(*                                                                         *)
(* Strings are sequences of symbols.  The 21 characters                    *)
(* "data:image/png;base64" are one symbol, the comma after them another,   *)
(* so that startswith and split(",") are computed, not assumed.            *)
(***************************************************************************)
EXTENDS Integers, Sequences, FiniteSets, TLC

\* ------------------------------------------------------------------ bounds
\* Number of requests the host may handle concurrently.
MaxRequests == 2
\* Last unix second the clock reaches (the clock starts at 0).
MaxTime == 1

Reqs == 1..MaxRequests

\* ------------------------------------------------------------------ values
None == [t |-> "none", s |-> <<>>]
Str(s) == [t |-> "str", s |-> s]
Num(n) == [t |-> "num", s |-> <<n>>]

\* Truthiness that takes only None for falsy.
Falsy_NoneOnly(v) == v.t = "none"

\* Python truthiness of the values used here: None, "", 0 are falsy.
Falsy(v) == v.t = "none" \/ (v.t = "str" /\ v.s = <<>>) \/ (v.t = "num" /\ v.s = <<0>>)

\* ------------------------------------------------------------- environment
StartupVars == {"R2_ENDPOINT_URL", "R2_ACCESS_KEY_ID", "R2_SECRET_ACCESS_KEY"}
RequiredVars == StartupVars \cup {"R2_BUCKET_NAME", "R2_PUBLIC_DOMAIN", "FLUX_API_KEY"}

\* The value of an environment variable that is set.
EnvValue(var) == IF var = "R2_PUBLIC_DOMAIN" THEN "cdn.example"
                 ELSE IF var = "R2_BUCKET_NAME" THEN "bucket" ELSE "secret"

\* ------------------------------------------------------------------- state
VARIABLES
  env,          \* the names of the environment variables that are set
  phase,        \* lifespan: "starting", "serving", "failed", "stopped"
  s3_client,    \* global s3_client exists
  http_client,  \* global http_client exists and is open
  now,          \* int(time.time())
  req,          \* per request: the handler's position and locals
  genCalls,     \* per request: outbound http_client.post calls issued
  putCalls,     \* per request: s3_client.put_object calls issued
  storage,      \* the bucket: object key -> object
  putLog        \* the requests whose put_object wrote an object, in store order

vars == <<env, phase, s3_client, http_client, now, req, genCalls, putCalls, storage, putLog>>

\* ------------------------------------------------------------ HTTP payloads
\* The request body: a dict with or without the key "prompt".
Payloads ==
  { [has |-> FALSE, prompt |-> None],
    [has |-> TRUE, prompt |-> None],
    [has |-> TRUE, prompt |-> Str(<<>>)],
    [has |-> TRUE, prompt |-> Num(0)],
    [has |-> TRUE, prompt |-> Str(<<"c", "a", "t">>)] }

\* payload.get("prompt")
PayloadGet(payload) == IF payload.has THEN payload.prompt ELSE None

\* ------------------------------------------------- generation API responses
\* A character outside ASCII.
NonAscii == "U+00E9"
PngHeader == "data:image/png;base64"
JpegHeader == "data:image/jpeg;base64"
DataUrlPrefix == <<PngHeader, ",">>

\* The `result` values the generation API is made to return.
ResultValues ==
  { None,
    Num(5),
    Str(<<>>),
    Str(<<"Q", "Q", "=", "=">>),
    Str(<<JpegHeader, ",", "Q", "Q", "=", "=">>),
    Str(<<PngHeader, ",">>),
    Str(<<PngHeader, ",", "Q", "Q", "=", "=">>),
    Str(<<PngHeader, ",", "A", "A", "A", "A", ",", "Q">>),
    Str(<<PngHeader, ",", "A", "A">>),
    Str(<<PngHeader, ",", "Q">>),
    Str(<<PngHeader, ",", "!", "!">>),
    Str(<<PngHeader, ",", NonAscii>>) }

NoBody == [fmt |-> "none", result |-> None]
\* Response bodies: not JSON, a JSON array, a JSON object with or without `result`.
Bodies ==
  { [fmt |-> "text", result |-> None], [fmt |-> "array", result |-> None] }
  \cup { [fmt |-> "object", result |-> v] : v \in ResultValues }

ErrorBody == [fmt |-> "object", result |-> None]
FailureStatuses == {404, 429, 503}

NoResponse == [kind |-> "none", status |-> 0, body |-> NoBody]
Responses ==
  { [kind |-> "timeout", status |-> 0, body |-> NoBody] }
  \cup { [kind |-> "http", status |-> s, body |-> ErrorBody] : s \in FailureStatuses }
  \cup { [kind |-> "http", status |-> 200, body |-> b] : b \in Bodies }

\* HTTPException(status_code, detail); detail is a sequence of message parts.
HTTPException(status_code, detail) == [status_code |-> status_code, detail |-> detail]

\* ------------------------------------------------------------ str methods
\* s.startswith(prefix)
startswith(s, prefix) ==
  Len(s) >= Len(prefix) /\ SubSeq(s, 1, Len(prefix)) = prefix

\* Index of the first "," of s at or after position i; Len(s) + 1 when there is none.
RECURSIVE find_comma(_, _)
find_comma(s, i) ==
  IF i > Len(s) THEN Len(s) + 1
  ELSE IF s[i] = "," THEN i ELSE find_comma(s, i + 1)

\* s.split(",")[1], for s holding at least one comma.
split_comma_1(s) ==
  LET c1 == find_comma(s, 1)
      c2 == find_comma(s, c1 + 1)
  IN SubSeq(s, c1 + 1, c2 - 1)

\* ----------------------------------------------------- base64.b64decode
\* Value of a character of the base64 alphabet; 64 for any other character.
table_a2b_base64(ch) ==
  CASE ch = "A" -> 0
    [] ch = "Q" -> 16
    [] ch = "/" -> 63
    [] OTHER -> 64

DecodeError == [ok |-> FALSE, bytes |-> <<>>]

\* binascii.a2b_base64 in its default, non-strict mode: characters outside the
\* alphabet are skipped, a pad completing a quad ends the parse, and only a
\* quad left incomplete at the end of the input is an error.
RECURSIVE a2b_base64(_, _, _, _, _, _)
a2b_base64(s, i, quad_pos, pads, leftchar, out) ==
  IF i > Len(s)
    THEN IF quad_pos # 0 THEN DecodeError ELSE [ok |-> TRUE, bytes |-> out]
  ELSE IF s[i] = "="
    THEN IF quad_pos >= 2 /\ quad_pos + pads + 1 >= 4
           THEN [ok |-> TRUE, bytes |-> out]
           ELSE a2b_base64(s, i + 1, quad_pos,
                           IF quad_pos >= 2 THEN pads + 1 ELSE pads, leftchar, out)
  ELSE LET v == table_a2b_base64(s[i]) IN
    IF v >= 64 THEN a2b_base64(s, i + 1, quad_pos, pads, leftchar, out)
    ELSE CASE quad_pos = 0 -> a2b_base64(s, i + 1, 1, 0, v, out)
           [] quad_pos = 1 ->
                a2b_base64(s, i + 1, 2, 0, v % 16,
                           Append(out, leftchar * 4 + v \div 16))
           [] quad_pos = 2 ->
                a2b_base64(s, i + 1, 3, 0, v % 4,
                           Append(out, leftchar * 16 + v \div 4))
           [] OTHER ->
                a2b_base64(s, i + 1, 0, 0, 0, Append(out, leftchar * 64 + v))

\* base64.b64decode(s) for a str s: s.encode("ascii") fails on a character
\* outside ASCII, then a2b_base64 decodes.
b64decode(s) ==
  IF \E i \in 1..Len(s) : s[i] = NonAscii THEN DecodeError
  ELSE a2b_base64(s, 1, 0, 0, 0, <<>>)

\* ------------------------------------------------------- upload_to_r2 parts
\* f"generated_image_{timestamp}.png"
object_name(timestamp) == <<"generated_image_", timestamp, ".png">>

\* f"https://{os.environ['R2_PUBLIC_DOMAIN']}/{object_name}"
public_url(name) == <<"https://", EnvValue("R2_PUBLIC_DOMAIN"), "/">> \o name

\* -------------------------------------------------- outcomes of a code path
NoException == HTTPException(0, <<>>)
Raise(status_code, detail) ==
  [raised |-> TRUE, exc |-> HTTPException(status_code, detail), value |-> None]
Return(value) == [raised |-> FALSE, exc |-> NoException, value |-> value]

\* --------------------------------------------------------- generate_image
\* Lines 41-67 and their handler at 90-94: what happens before the request to
\* the generation API is sent.  The HTTPException raised in the try block is
\* caught by `except Exception` and raised again with status 500.
generate_image_call(e) ==
  IF "FLUX_API_KEY" \notin e
    THEN Raise(500, <<"Image generation error",
                      "FLUX_API_KEY environment variable not set">>)
    ELSE Return(None)

\* A status test that takes only server errors for failures.
is_success_below_500(status) == status >= 200 /\ status <= 499

\* httpx's Response.is_success, which raise_for_status tests.
is_success(status) == status >= 200 /\ status <= 299

\* Lines 68-94: what generate_image makes of the awaited response.
generate_image_return(resp) ==
  IF resp.kind = "timeout"
    THEN Raise(500, <<"Image generation error", "ReadTimeout">>)
  ELSE IF ~is_success(resp.status)
    THEN Raise(resp.status, <<"Image generation failed", "HTTPStatusError">>)
  ELSE IF resp.body.fmt = "text"
    THEN Raise(500, <<"Invalid API response format">>)
  ELSE IF resp.body.fmt # "object"
    THEN Raise(500, <<"Image generation error", "AttributeError">>)
  ELSE LET image_data_url == resp.body.result IN
    IF Falsy(image_data_url)
      THEN Raise(500, <<"Image generation error", "Invalid image data response">>)
    ELSE IF image_data_url.t # "str"
      THEN Raise(500, <<"Image generation error", "AttributeError">>)
    ELSE IF ~startswith(image_data_url.s, DataUrlPrefix)
      THEN Raise(500, <<"Image generation error", "Invalid image data response">>)
    ELSE Return(Str(split_comma_1(image_data_url.s)))

\* ----------------------------------------------------------- upload_to_r2
\* The uploader without its check of the environment.
upload_to_r2_call_unchecked(e, image_data) ==
  LET image_bytes == b64decode(image_data.s) IN
    IF ~image_bytes.ok
      THEN Raise(500, <<"R2 upload failed", "binascii.Error">>)
      ELSE Return(Str(image_bytes.bytes))

\* Lines 97-107 and their handler at 120-124: the checks made before
\* put_object is handed to the worker thread.  The value returned is the
\* decoded image.
upload_to_r2_call(e, image_data) ==
  IF "R2_BUCKET_NAME" \notin e
    THEN Raise(500, <<"R2 upload failed", "R2_BUCKET_NAME environment variable not set">>)
  ELSE IF "R2_PUBLIC_DOMAIN" \notin e
    THEN Raise(500, <<"R2 upload failed", "R2_PUBLIC_DOMAIN environment variable not set">>)
  ELSE LET image_bytes == b64decode(image_data.s) IN
    IF ~image_bytes.ok
      THEN Raise(500, <<"R2 upload failed", "binascii.Error">>)
      ELSE Return(Str(image_bytes.bytes))

\* The URL built from a second reading of the clock.
upload_to_r2_return_now(put, timestamp) ==
  IF put = "ok"
    THEN Return(Str(public_url(object_name(now))))
    ELSE Raise(500, <<"R2 upload failed", "ClientError">>)

\* The URL returned whether or not put_object raised.
upload_to_r2_return_swallow(put, timestamp) ==
  Return(Str(public_url(object_name(timestamp))))

\* The storage error raised again as it came, with the store's own status.
upload_to_r2_return_passthrough(put, timestamp) ==
  IF put = "ok"
    THEN Return(Str(public_url(object_name(timestamp))))
    ELSE Raise(503, <<"ClientError">>)

\* Lines 118-124: what upload_to_r2 makes of the awaited put_object.
upload_to_r2_return(put, timestamp) ==
  IF put = "ok"
    THEN Return(Str(public_url(object_name(timestamp))))
    ELSE Raise(500, <<"R2 upload failed", "ClientError">>)

\* ------------------------------------------------------------------- Init
NoPayload == [has |-> FALSE, prompt |-> None]
IdleRequest ==
  [ pc |-> "idle", payload |-> NoPayload, upstream |-> NoResponse,
    base64_image |-> None, timestamp |-> -1, put |-> "none", put_key |-> <<>>,
    status_code |-> 0, detail |-> <<>>, image_url |-> <<>> ]

Init ==
  /\ env \in SUBSET RequiredVars
  /\ phase = "starting"
  /\ s3_client = FALSE
  /\ http_client = FALSE
  /\ now = 0
  /\ req = [r \in Reqs |-> IdleRequest]
  /\ genCalls = [r \in Reqs |-> 0]
  /\ putCalls = [r \in Reqs |-> 0]
  /\ storage = << >>
  /\ putLog = << >>

\* The response FastAPI sends for a raised HTTPException.
Failed(rec, exc) ==
  [rec EXCEPT !.pc = "done", !.status_code = exc.status_code, !.detail = exc.detail]

\* ---------------------------------------------------------------- lifespan
\* Lines 25-35: os.environ[...] raises KeyError for a variable that is not
\* set, the lifespan fails and the server exits without serving.
lifespan_startup ==
  /\ phase = "starting"
  /\ IF StartupVars \subseteq env
       THEN /\ s3_client' = TRUE
            /\ http_client' = TRUE
            /\ phase' = "serving"
       ELSE /\ phase' = "failed"
            /\ UNCHANGED <<s3_client, http_client>>
  /\ UNCHANGED <<env, now, req, genCalls, putCalls, storage, putLog>>

\* Line 36: after the server has drained its requests.
lifespan_shutdown ==
  /\ phase = "serving"
  /\ \A r \in Reqs : req[r].pc \in {"idle", "done"}
  /\ http_client' = FALSE
  /\ phase' = "stopped"
  /\ UNCHANGED <<env, s3_client, now, req, genCalls, putCalls, storage, putLog>>

\* time.time() advances.
Tick ==
  /\ now < MaxTime
  /\ now' = now + 1
  /\ UNCHANGED <<env, phase, s3_client, http_client, req, genCalls, putCalls, storage, putLog>>

\* ------------------------------------------------------- generate_endpoint
\* Lines 131-139, 40-67: from the arrival of the request to the first await.
\* Requests are numbered in their order of arrival.
generate_endpoint(r, payload) ==
  /\ phase = "serving"
  /\ req[r].pc = "idle"
  /\ \A q \in Reqs : q < r => req[q].pc # "idle"
  /\ LET prompt == PayloadGet(payload)
         rec == [req[r] EXCEPT !.payload = payload]
         call == generate_image_call(env)
     IN IF Falsy(prompt)
          THEN /\ req' = [req EXCEPT ![r] =
                            Failed(rec, HTTPException(400, <<"Prompt is required">>))]
               /\ UNCHANGED genCalls
        ELSE IF call.raised
          THEN /\ req' = [req EXCEPT ![r] = Failed(rec, call.exc)]
               /\ UNCHANGED genCalls
        ELSE /\ req' = [req EXCEPT ![r] = [rec EXCEPT !.pc = "awaiting_post"]]
             /\ genCalls' = [genCalls EXCEPT ![r] = @ + 1]
  /\ UNCHANGED <<env, phase, s3_client, http_client, now, putCalls, storage, putLog>>

\* The generation call sent once more after a timeout.
http_post_returns_retry(r, resp) ==
  /\ req[r].pc = "awaiting_post"
  /\ LET rec == [req[r] EXCEPT !.upstream = resp]
         gen == generate_image_return(resp)
         got == [rec EXCEPT !.base64_image = gen.value]
         up == upload_to_r2_call(env, gen.value)
     IN IF resp.kind = "timeout" /\ genCalls[r] < 2
          THEN /\ genCalls' = [genCalls EXCEPT ![r] = @ + 1]
               /\ UNCHANGED <<req, putCalls>>
        ELSE IF gen.raised
          THEN /\ req' = [req EXCEPT ![r] = Failed(rec, gen.exc)]
               /\ UNCHANGED <<putCalls, genCalls>>
        ELSE IF up.raised
          THEN /\ req' = [req EXCEPT ![r] = Failed(got, up.exc)]
               /\ UNCHANGED <<putCalls, genCalls>>
        ELSE /\ req' = [req EXCEPT ![r] =
                          [got EXCEPT !.pc = "awaiting_put", !.timestamp = now,
                                      !.put = "pending", !.put_key = object_name(now)]]
             /\ putCalls' = [putCalls EXCEPT ![r] = @ + 1]
             /\ UNCHANGED genCalls
  /\ UNCHANGED <<env, phase, s3_client, http_client, now, storage, putLog>>

\* Lines 68-94, 139-140, 96-117: the generation API answers (or the 30 s
\* timeout fires); on success upload_to_r2 runs up to its await of put_object.
http_post_returns(r, resp) ==
  /\ req[r].pc = "awaiting_post"
  /\ LET rec == [req[r] EXCEPT !.upstream = resp]
         gen == generate_image_return(resp)
         got == [rec EXCEPT !.base64_image = gen.value]
         up == upload_to_r2_call(env, gen.value)
     IN IF gen.raised
          THEN /\ req' = [req EXCEPT ![r] = Failed(rec, gen.exc)]
               /\ UNCHANGED putCalls
        ELSE IF up.raised
          THEN /\ req' = [req EXCEPT ![r] = Failed(got, up.exc)]
               /\ UNCHANGED putCalls
        ELSE /\ req' = [req EXCEPT ![r] =
                          [got EXCEPT !.pc = "awaiting_put", !.timestamp = now,
                                      !.put = "pending", !.put_key = object_name(now)]]
             /\ putCalls' = [putCalls EXCEPT ![r] = @ + 1]
  /\ UNCHANGED <<env, phase, s3_client, http_client, now, genCalls, storage, putLog>>

\* A put that leaves an object already stored under the key as it is.
put_object_keep_existing(r, ok) ==
  /\ req[r].pc = "awaiting_put"
  /\ req[r].put = "pending"
  /\ IF ok
       THEN /\ storage' = storage @@ (req[r].put_key :>
                             [ Body |-> b64decode(req[r].base64_image.s).bytes,
                               ContentType |-> "image/png", writer |-> r ])
            /\ putLog' = Append(putLog, r)
            /\ req' = [req EXCEPT ![r].put = "ok"]
       ELSE /\ req' = [req EXCEPT ![r].put = "err"]
            /\ UNCHANGED <<storage, putLog>>
  /\ UNCHANGED <<env, phase, s3_client, http_client, now, genCalls, putCalls>>

\* Lines 111-117: s3_client.put_object runs in the worker thread.  A put that
\* succeeds writes the object under its key, whatever was there; one that
\* fails writes nothing.
put_object(r, ok) ==
  /\ req[r].pc = "awaiting_put"
  /\ req[r].put = "pending"
  /\ IF ok
       THEN /\ storage' = (req[r].put_key :>
                             [ Body |-> b64decode(req[r].base64_image.s).bytes,
                               ContentType |-> "image/png", writer |-> r ]) @@ storage
            /\ putLog' = Append(putLog, r)
            /\ req' = [req EXCEPT ![r].put = "ok"]
       ELSE /\ req' = [req EXCEPT ![r].put = "err"]
            /\ UNCHANGED <<storage, putLog>>
  /\ UNCHANGED <<env, phase, s3_client, http_client, now, genCalls, putCalls>>

\* Lines 118-124, 140-150: the await of put_object completes and the
\* endpoint responds.
upload_returns(r) ==
  /\ req[r].pc = "awaiting_put"
  /\ req[r].put \in {"ok", "err"}
  /\ LET up == upload_to_r2_return(req[r].put, req[r].timestamp)
     IN IF up.raised
          THEN req' = [req EXCEPT ![r] = Failed(req[r], up.exc)]
          ELSE req' = [req EXCEPT ![r] =
                         [req[r] EXCEPT !.pc = "done", !.status_code = 200,
                                        !.image_url = up.value.s]]
  /\ UNCHANGED <<env, phase, s3_client, http_client, now, genCalls, putCalls, storage, putLog>>

Next ==
  \/ lifespan_startup
  \/ lifespan_shutdown
  \/ Tick
  \/ \E r \in Reqs : \E payload \in Payloads : generate_endpoint(r, payload)
  \/ \E r \in Reqs : \E resp \in Responses : http_post_returns(r, resp)
  \/ \E r \in Reqs : \E ok \in BOOLEAN : put_object(r, ok)
  \/ \E r \in Reqs : upload_returns(r)

Spec == Init /\ [][Next]_vars

\* ================================================================= claims
Done(r) == req[r].pc = "done"
Arrived(r) == req[r].pc # "idle"

\* The payload carries no prompt, or one of None, "", 0.
PromptMissingOrEmpty(payload) ==
  \/ ~payload.has
  \/ payload.prompt \in {None, Str(<<>>), Num(0)}

\* The generation API has answered r with status 2xx and a JSON object whose
\* `result` is a string that begins "data:image/png;base64,".
GotDataUrl(r) ==
  LET u == req[r].upstream IN
    /\ u.kind = "http" /\ u.status \in 200..299
    /\ u.body.fmt = "object" /\ u.body.result.t = "str"
    /\ Len(u.body.result.s) >= 2
    /\ u.body.result.s[1] = PngHeader /\ u.body.result.s[2] = ","

\* C1: a request whose payload has no prompt or a falsy prompt is answered
\* 400, and neither the generation call nor put_object is issued for it.
C1_EmptyPrompt400NoCalls ==
  \A r \in Reqs :
    (Arrived(r) /\ PromptMissingOrEmpty(req[r].payload)) =>
      /\ Done(r)
      /\ req[r].status_code = 400
      /\ genCalls[r] = 0
      /\ putCalls[r] = 0

C1_Witness ==
  \E r \in Reqs :
    /\ Done(r) /\ req[r].status_code = 400
    /\ req[r].payload = [has |-> TRUE, prompt |-> Str(<<>>)]

\* C2: with a non-empty prompt, a data-URL result and a put_object that
\* succeeded, the answer is 200 and image_url is https://<R2_PUBLIC_DOMAIN>/
\* followed by the key passed to put_object, generated_image_<t>.png with t the
\* second read at upload time.
C2_SuccessUrlIsPutKey ==
  \A r \in Reqs :
    (Done(r) /\ ~PromptMissingOrEmpty(req[r].payload) /\ GotDataUrl(r)
       /\ req[r].put = "ok") =>
      /\ req[r].status_code = 200
      /\ req[r].put_key = <<"generated_image_", req[r].timestamp, ".png">>
      /\ req[r].image_url = <<"https://", "cdn.example", "/">> \o req[r].put_key
      /\ req[r].timestamp \in 0..now

C2_Witness ==
  \E r \in Reqs :
    /\ Done(r) /\ req[r].status_code = 200 /\ req[r].put = "ok"
    /\ req[r].timestamp < now
    /\ req[r].image_url = <<"https://", "cdn.example", "/", "generated_image_", 0, ".png">>

\* C3: when the generation step fails the request ends in an error without a
\* put_object call: 500 for a timeout, malformed JSON, a missing `result` or a
\* `result` without the prefix, and the upstream status S for a non-2xx answer.
C3_GenerationFailureStatus ==
  \A r \in Reqs :
    LET u == req[r].upstream IN
      /\ (Done(r) /\ req[r].base64_image = None) =>
           (req[r].status_code # 200 /\ req[r].image_url = <<>> /\ putCalls[r] = 0)
      /\ (u.kind = "timeout"
            \/ (u.kind = "http" /\ u.status \in 200..299 /\ ~GotDataUrl(r))) =>
           (Done(r) /\ req[r].status_code = 500 /\ putCalls[r] = 0)
      /\ (u.kind = "http" /\ u.status \notin 200..299) =>
           (Done(r) /\ req[r].status_code = u.status /\ putCalls[r] = 0)

C3_Witness ==
  /\ \E r \in Reqs : Done(r) /\ req[r].upstream.status = 404 /\ req[r].status_code = 404
  /\ \E r \in Reqs : Done(r) /\ req[r].upstream.kind = "timeout" /\ req[r].status_code = 500

\* C4: with any one required environment variable missing the process still
\* starts and serves, and the absence shows only as a 500 when the operation
\* that needs the variable runs.
C4_MissingVarNeverFailsStartup ==
  Cardinality(RequiredVars \ env) = 1 =>
    /\ phase # "failed"
    /\ \A r \in Reqs :
         (Done(r) /\ Len(req[r].detail) = 2
            /\ req[r].detail[2] \in
                 { "FLUX_API_KEY environment variable not set",
                   "R2_BUCKET_NAME environment variable not set",
                   "R2_PUBLIC_DOMAIN environment variable not set" }) =>
           req[r].status_code = 500

\* The image r handed to put_object.
ImageBytes(r) == b64decode(req[r].base64_image.s).bytes

\* C5 as stated: put_object is issued only after generation returned, and a
\* completed request has its object in storage exactly when it was answered
\* 200 with that object's URL; a failed request leaves none.
C5_ObjectStoredIffSuccess ==
  \A r \in Reqs :
    /\ putCalls[r] > 0 => (genCalls[r] = 1 /\ GotDataUrl(r))
    /\ (Done(r) /\ req[r].status_code = 200) =>
         /\ req[r].image_url = <<"https://", "cdn.example", "/">> \o req[r].put_key
         /\ req[r].put_key \in DOMAIN storage
         /\ storage[req[r].put_key].Body = ImageBytes(r)
    /\ (Done(r) /\ req[r].status_code # 200) =>
         \A k \in DOMAIN storage : storage[k].writer # r

\* Position of r's write in the store's order; 0 when r wrote nothing.
PutIndex(r) ==
  IF \E i \in 1..Len(putLog) : putLog[i] = r
    THEN CHOOSE i \in 1..Len(putLog) : putLog[i] = r
    ELSE 0

\* C5 amended: put_object is issued only after generation returned; for a
\* completed request put_object succeeded exactly when the answer was 200 with
\* the URL of the key it wrote; that key then holds an object, the request's
\* own unless a later put to the same key replaced it; a failed request wrote
\* nothing.
C5_PutSucceededIffSuccess ==
  \A r \in Reqs :
    /\ putCalls[r] > 0 => (genCalls[r] = 1 /\ GotDataUrl(r))
    /\ Done(r) =>
         /\ (req[r].put = "ok" /\ PutIndex(r) > 0)
              <=> (req[r].status_code = 200
                     /\ req[r].image_url = <<"https://", "cdn.example", "/">> \o req[r].put_key)
         /\ req[r].status_code = 200 =>
              /\ req[r].put_key \in DOMAIN storage
              /\ \/ /\ storage[req[r].put_key].writer = r
                    /\ storage[req[r].put_key].Body = ImageBytes(r)
                 \/ LET w == storage[req[r].put_key].writer IN
                      /\ req[w].put_key = req[r].put_key
                      /\ PutIndex(w) > PutIndex(r)
         /\ req[r].status_code # 200 =>
              /\ PutIndex(r) = 0
              /\ \A k \in DOMAIN storage : storage[k].writer # r

C5_Witness ==
  \E r, w \in Reqs :
    /\ Done(r) /\ req[r].status_code = 200
    /\ w # r /\ storage[req[r].put_key].writer = w
    /\ storage[req[r].put_key].Body # ImageBytes(r)

\* C6: two requests whose uploads read the same second derive the same key;
\* both puts go to it, the later replaces the earlier, both are answered 200
\* with the same image_url, and storage holds the image of the later one only.
C6_SameSecondCollision ==
  \A r1, r2 \in Reqs :
    (r1 # r2 /\ req[r1].put = "ok" /\ req[r2].put = "ok"
       /\ req[r1].timestamp = req[r2].timestamp /\ PutIndex(r1) < PutIndex(r2)) =>
      /\ req[r1].put_key = req[r2].put_key
      /\ req[r1].put_key \in DOMAIN storage
      /\ storage[req[r1].put_key].writer # r1
      /\ (\A r3 \in Reqs : (req[r3].put = "ok" /\ req[r3].put_key = req[r2].put_key)
                              => PutIndex(r3) <= PutIndex(r2)) =>
           /\ storage[req[r2].put_key].writer = r2
           /\ storage[req[r2].put_key].Body = ImageBytes(r2)
      /\ (Done(r1) /\ Done(r2)) =>
           /\ req[r1].status_code = 200 /\ req[r2].status_code = 200
           /\ req[r1].image_url = req[r2].image_url
           /\ Cardinality({k \in DOMAIN storage : storage[k].writer \in {r1, r2}}) <= 1

C6_Witness ==
  \E r1, r2 \in Reqs :
    /\ r1 # r2 /\ Done(r1) /\ Done(r2)
    /\ req[r1].status_code = 200 /\ req[r2].status_code = 200
    /\ req[r1].timestamp = req[r2].timestamp
    /\ req[r1].base64_image # req[r2].base64_image
    /\ Cardinality(DOMAIN storage) = 1

\* Base64 text as RFC 4648 defines it: alphabet characters in groups of four,
\* the last group padded with at most two "=".
RECURSIVE AllInAlphabet(_)
AllInAlphabet(s) ==
  s = <<>> \/ (Head(s) \in {"A", "Q", "/"} /\ AllInAlphabet(Tail(s)))

ValidBase64(s) ==
  /\ Len(s) % 4 = 0
  /\ \/ AllInAlphabet(s)
     \/ Len(s) >= 4 /\ s[Len(s)] = "=" /\ AllInAlphabet(SubSeq(s, 1, Len(s) - 1))
     \/ Len(s) >= 4 /\ s[Len(s)] = "=" /\ s[Len(s) - 1] = "="
          /\ AllInAlphabet(SubSeq(s, 1, Len(s) - 2))

\* C7: text handed to the uploader that is not valid base64 makes the request
\* fail with 500, and put_object is not called for it.
C7_InvalidBase64NeverUploaded ==
  \A r \in Reqs :
    (req[r].base64_image.t = "str" /\ ~ValidBase64(req[r].base64_image.s)) =>
      /\ Done(r)
      /\ req[r].status_code = 500
      /\ putCalls[r] = 0

\* C8: when generation succeeded and put_object failed, the answer is 500, its
\* detail begins "R2 upload failed", and no image_url is returned.
C8_StorageFailure500 ==
  \A r \in Reqs :
    (Done(r) /\ req[r].put = "err") =>
      /\ req[r].status_code = 500
      /\ Len(req[r].detail) >= 1 /\ req[r].detail[1] = "R2 upload failed"
      /\ req[r].image_url = <<>>

C8_Witness ==
  \E r \in Reqs : Done(r) /\ req[r].put = "err" /\ GotDataUrl(r) /\ putCalls[r] = 1

\* C9: nothing is retried: a request issues at most one generation call and
\* at most one put_object call, a failed generation is followed by no
\* put_object, and a request that has been answered takes no further step.
C9_NoRetry ==
  /\ [](\A r \in Reqs :
          /\ genCalls[r] <= 1
          /\ putCalls[r] <= 1
          /\ putCalls[r] <= genCalls[r])
  /\ [][\A r \in Reqs :
          /\ genCalls'[r] >= genCalls[r] /\ putCalls'[r] >= putCalls[r]
          /\ (req[r].upstream.kind # "none" => genCalls'[r] = genCalls[r])
          /\ (req[r].put \in {"ok", "err"} => putCalls'[r] = putCalls[r])
          /\ (Done(r) => (req'[r] = req[r] /\ genCalls'[r] = genCalls[r]
                            /\ putCalls'[r] = putCalls[r]))]_vars

C9_Witness ==
  /\ \E r \in Reqs : Done(r) /\ req[r].upstream.kind = "timeout" /\ genCalls[r] = 1
  /\ \E r \in Reqs : Done(r) /\ req[r].put = "err" /\ putCalls[r] = 1

\* FLUX_API_KEY is set and R2_BUCKET_NAME or R2_PUBLIC_DOMAIN is not.
UploaderUnconfigured ==
  /\ "FLUX_API_KEY" \in env
  /\ "R2_BUCKET_NAME" \notin env \/ "R2_PUBLIC_DOMAIN" \notin env

\* C10 as stated: with the uploader unconfigured, every request with a
\* non-empty prompt issues the generation call and then fails with 500
\* without a put_object call.
C10_UnconfiguredUploaderAlways500 ==
  UploaderUnconfigured =>
    \A r \in Reqs :
      (Arrived(r) /\ ~PromptMissingOrEmpty(req[r].payload)) =>
        /\ genCalls[r] = 1
        /\ putCalls[r] = 0
        /\ Done(r) => req[r].status_code = 500

\* C10 amended: with the uploader unconfigured, every request with a non-empty
\* prompt issues the generation call first and then fails without a put_object
\* call: with 500 from the uploader when generation succeeded, and with the
\* generation step's own status (S for an upstream non-2xx S, else 500) when
\* it did not.
C10_GenerationBeforeUploaderCheck ==
  UploaderUnconfigured =>
    \A r \in Reqs :
      (Arrived(r) /\ ~PromptMissingOrEmpty(req[r].payload)) =>
        /\ genCalls[r] = 1
        /\ putCalls[r] = 0
        /\ Done(r) =>
             /\ req[r].upstream.kind # "none"
             /\ IF req[r].upstream.kind = "http" /\ req[r].upstream.status \notin 200..299
                  THEN req[r].status_code = req[r].upstream.status
                  ELSE req[r].status_code = 500
             /\ GotDataUrl(r) =>
                  (req[r].base64_image.t = "str" /\ req[r].detail[1] = "R2 upload failed")

C10_Witness ==
  /\ UploaderUnconfigured
  /\ \E r \in Reqs :
       /\ Done(r) /\ GotDataUrl(r) /\ genCalls[r] = 1 /\ putCalls[r] = 0
       /\ req[r].status_code = 500
       /\ req[r].detail = <<"R2 upload failed", "R2_BUCKET_NAME environment variable not set">>

====
